---- MODULE Spec2Model ----
(***************************************************************************)
(* Model of kumuluzee-go-discovery: the Consul and etcd discovery sources  *)
(* of src/discovery/consul_discovery.go.                                   *)
(*                                                                         *)
(* The model is one handle d (a consulDiscoverySource or an                *)
(* etcdDiscoverySource) in one process, and the backend it talks to.       *)
(* Every RegisterService call allocates a fresh instance object and spawns *)
(* one goroutine running run(); the store is the Consul agent's service    *)
(* catalog or the etcd key tree, in which other processes register         *)
(* instances of their own.  DiscoverService queries the backend, keeps a   *)
(* watch entry with the gateway URL of every namespace it has seen and     *)
(* remembers the last URL it returned; the configuration source calls the  *)
(* subscribed callbacks when a gatewayUrl key changes.                     *)
(***************************************************************************)
EXTENDS Integers, Sequences, FiniteSets, TLC

VARIABLES
    budget,           \* [calls, deregs, fails, after, disc]: how far this run and its history
                      \* counters may go (set by Init, never changed)
    backend,          \* "consul" or "etcd": which discoverySource d is
    backendUp,        \* the backend accepts every call from now on (its transient errors are over)
    baseURL,          \* kumuluzee.server.base-url of the configuration file
    startRetryDelay,  \* d.startRetryDelay
    maxRetryDelay,    \* d.maxRetryDelay
    serviceInstance,  \* index of the instance object d.serviceInstance points to, 0 = nil
    objs,             \* sequence of the instance objects allocated so far (with the options loaded with them)
    loops,            \* sequence of goroutines: loops[i] was spawned by the call that allocated objs[i]
    store,            \* key -> record: the backend's registry
    panicked,         \* the process died of a nil pointer dereference
    lastRet,          \* what the last RegisterService call returned
    deregDone,        \* number of DeregisterService calls that returned (history)
    deregAt,          \* Len(loops) when DeregisterService first returned (history)
    attemptsAfter     \* attempts the goroutines 1..deregAt have begun since then (history)

VARIABLES
    verList,          \* version resolution: the parsed versions of the discovered instances
    verSel,           \* version resolution: the requested selector
    verOut            \* version resolution: [done, found, v], the resolved version

VARIABLES
    lastKnownService, \* d.lastKnownService: last known service from discovery
    gatewayURLs,      \* d.gatewayURLs: sequence of [gatewayID, gatewayURL]
    subs,             \* the namespaces whose gatewayUrl key was read and a callback
                      \* subscribed to (GetString and Subscribe are made together), in order
    gatewayCfg,       \* configuration store: namespace -> value of its gatewayUrl key, "" = not set
    discRet,          \* what the last DiscoverService call returned, and how: the options
                      \* it was called with, the query's answer, the instances discovered
                      \* in it and the one selected (history)
    discCalls,        \* number of DiscoverService calls made (history)
    lastGood,         \* [had, url, name, n]: the most recent successful discovery, its URL,
                      \* the service it was for and how many there have been (history)
    gwChanges,        \* number of changes of gatewayUrl keys so far (history)
    notified,         \* namespaces notified of a change since their watch entry exists (history)
    inFlight,         \* the DiscoverService calls that run concurrently, each with its
                      \* position in the watch part and its locals
    pending           \* change notifications whose callback has not run yet, in order

verVars == <<verList, verSel, verOut>>

discVars == <<lastKnownService, gatewayURLs, subs, gatewayCfg, discRet, discCalls,
              lastGood, gwChanges, notified, inFlight, pending>>

regVars == <<budget, backend, backendUp, baseURL, startRetryDelay, maxRetryDelay, serviceInstance,
             objs, loops, store, panicked, lastRet, deregDone, deregAt, attemptsAfter>>

\* what the registration actions leave alone
otherVars == <<verVars, discVars>>

vars == <<regVars, verVars, discVars>>

----------------------------------------------------------------------------
(* Bounds of the model *)

MaxRegisterCalls == 2
MaxDeregisterCalls == 2
MaxFails == 8
MaxAttemptsAfter == 2
MaxVersions == 4
MaxDiscoverCalls == 2
MaxGatewayChanges == 2

Backends == {"consul", "etcd"}
ServiceNames == {"svc"}
EnvName == "dev"
Version == "1.0.0"
BaseURLs == {"", "http://svc:8080"}
UUIDs == <<"u1", "u2", "u3", "u4">>
\* the instance another process registers: <<service name, url, status>>
ForeignUUID == "ext"
ForeignInstances == { <<"svc", "http://ext:8080", "">>, <<"svc", "", "">>,
                      <<"svc", "http://ext:8080", "disabled">>,
                      <<"other", "http://ext:8080", "">> }
\* <<startRetryDelay, maxRetryDelay>> pairs the configuration may hold
RetryConfigs == {<<1, 20>>, <<2, 5>>, <<3, 2>>}

Min(a, b) == IF a < b THEN a ELSE b

----------------------------------------------------------------------------
(* Instance objects *)

\* consulServiceInstance.id: d.options.Name + "-" + uuid4
ConsulID(name, uuid) == name \o "-" \o uuid

\* consulServiceInstance.name: d.options.Env.Name + "-" + d.options.Name
ConsulName(env, name) == env \o "-" \o name

\* the version directory of a service in etcd
EtcdNamespace(env, name, version) ==
    "/environments/" \o env \o "/services/" \o name \o "/" \o version

\* etcdServiceInstance.etcdKeyDir
EtcdKeyDir(env, name, version, id) ==
    EtcdNamespace(env, name, version) \o "/instances/" \o id

\* the object RegisterService allocates, with the registerConfiguration loaded
\* with it: name is the Consul service name or the etcd version directory,
\* key the Consul service id or the etcd instance directory; peerSince is
\* history of a singleton: a healthy instance of the same service existed
\* when RegisterService was called and has been healthy ever since
NewInstance(be, name, singleton, url, uuid) ==
    [ id        |-> IF be = "consul" THEN ConsulID(name, uuid) ELSE uuid,
      name      |-> IF be = "consul" THEN ConsulName(EnvName, name)
                                     ELSE EtcdNamespace(EnvName, name, Version),
      key       |-> IF be = "consul" THEN ConsulID(name, uuid)
                                     ELSE EtcdKeyDir(EnvName, name, Version, uuid),
      singleton |-> singleton,
      baseURL   |-> url,
      isRegistered |-> FALSE,
      peerSince |-> FALSE ]

----------------------------------------------------------------------------
(* The backend's registry.  A Consul record is a service with its TTL check *)
(* (st is the check's status); an etcd record is an instance directory     *)
(* (hasUrl/url is its url child, status its status child or "", ttl tells   *)
(* whether the directory expires).                                         *)

EmptyStore == [k \in {} |-> 0]

Remove(st, key) == [k \in DOMAIN st \ {key} |-> st[k]]

Put(st, key, rec) == [k \in DOMAIN st \cup {key} |-> IF k = key THEN rec ELSE st[k]]

\* client.Health().Service(name, "", true, nil): the passing services of that name
ConsulHealthService(st, name) ==
    {k \in DOMAIN st : st[k].name = name /\ st[k].st = "passing"}

\* consulDiscoverySource.isServiceRegistered
ConsulIsServiceRegistered(st, reg, queryOk) ==
    IF ~queryOk THEN FALSE
    ELSE Cardinality(ConsulHealthService(st, reg.id)) > 0

\* etcdDiscoverySource.isServiceRegistered: the Get of .../instances/ fails
\* when the directory does not exist; an instance counts when it is not
\* disabled and its url is not empty
EtcdIsServiceRegistered(st, opts, queryOk) ==
    LET found == {k \in DOMAIN st : st[k].name = opts.name}
    IN  IF ~queryOk \/ found = {} THEN FALSE
        ELSE \E k \in found :
                LET URL      == IF st[k].hasUrl THEN st[k].url ELSE ""
                    isActive == st[k].status # "disabled"
                IN  isActive /\ URL # ""

\* mutant of NextRetryDelay: the delay doubles without the clamp
NextRetryDelayUnclamped(retryDelay, maxRD) == retryDelay * 2

\* exponentially extend retry delay, but keep it at most maxRetryDelay
NextRetryDelay(retryDelay, maxRD) ==
    LET newRetryDelay == retryDelay * 2
    IN  IF newRetryDelay > maxRD THEN maxRD ELSE newRetryDelay

----------------------------------------------------------------------------
(* Version resolution.  A semantic version is <<major, minor, patch>>; a     *)
(* selector is "*", an exact version, or an NPM-like ^ or ~ range.           *)

VersionUniverse == { <<1, 0, 0>>, <<1, 0, 4>>, <<1, 2, 0>>, <<2, 0, 0>> }

Star == [op |-> "*", v |-> <<0, 0, 0>>]

Selectors ==
    {Star} \cup { [op |-> o, v |-> w] : o \in {"=", "^", "~"},
                                        w \in { <<1, 0, 0>>, <<1, 0, 4>>, <<1, 3, 0>> } }

NoVersion == [done |-> FALSE, found |-> FALSE, v |-> <<0, 0, 0>>]

\* semver.Version.Compare < 0
VersionLT(a, b) ==
    \/ a[1] < b[1]
    \/ a[1] = b[1] /\ a[2] < b[2]
    \/ a[1] = b[1] /\ a[2] = b[2] /\ a[3] < b[3]

VersionGE(a, b) == ~VersionLT(a, b)

\* the range a selector stands for: ^1.0.4 is >=1.0.4 <2.0.0, ~1.0.4 is >=1.0.4 <1.1.0
Satisfies(sel, w) ==
    CASE sel.op = "*" -> TRUE
      [] sel.op = "=" -> w = sel.v
      [] sel.op = "^" -> VersionGE(w, sel.v) /\ VersionLT(w, <<sel.v[1] + 1, 0, 0>>)
      [] sel.op = "~" -> VersionGE(w, sel.v) /\ VersionLT(w, <<sel.v[1], sel.v[2] + 1, 0>>)

\* mutant of ResolveStep: the first satisfying version is kept
ResolveStepFirst(acc, sel, w) ==
    IF Satisfies(sel, w) /\ ~acc.found
    THEN [done |-> TRUE, found |-> TRUE, v |-> w]
    ELSE acc

\* one version of the candidate list: kept when it satisfies the selector and
\* is higher than the best so far
ResolveStep(acc, sel, w) ==
    IF Satisfies(sel, w) /\ (~acc.found \/ VersionLT(acc.v, w))
    THEN [done |-> TRUE, found |-> TRUE, v |-> w]
    ELSE acc

RECURSIVE ResolveFrom(_, _, _, _)
ResolveFrom(versions, sel, k, acc) ==
    IF k > Len(versions) THEN acc
    ELSE ResolveFrom(versions, sel, k + 1, ResolveStep(acc, sel, versions[k]))

\* the highest of the versions that satisfies the selector, or no match
ResolveVersion(versions, sel) ==
    ResolveFrom(versions, sel, 1, [done |-> TRUE, found |-> FALSE, v |-> <<0, 0, 0>>])

\* the resolver applied to the drawn input
Resolve ==
    /\ ~verOut.done
    /\ verOut' = ResolveVersion(verList, verSel)
    /\ UNCHANGED <<verList, verSel, regVars, discVars>>

----------------------------------------------------------------------------
(* The goroutine run(): loops[i] is at                                      *)
(*   "run"        entering run(retryDelay)                                  *)
(*   "register"   in register(), before isServiceRegistered()               *)
(*   "doRegister" before ServiceRegister (Consul) / the Set of the          *)
(*                instance directory (etcd)                                 *)
(*   "setUrl"     etcd only, before the Set of the url key                  *)
(*   "ttlUpdate"  in ttlUpdate(), before UpdateTTL / the refreshing Set     *)
(*   "sleepFail"  in time.Sleep(retryDelay) after a failed attempt          *)
(*   "sleepOk"    in time.Sleep(PingInterval) after a successful one        *)
(* inst is the object the attempt captured (inst := d.serviceInstance);     *)
(* fails counts the consecutive failed attempts and prev tells how the      *)
(* goroutine's last attempt ended: "none", "ok" or "fail" (history).        *)

InFlightPCs == {"register", "doRegister", "setUrl", "ttlUpdate"}

\* whether a call to the backend succeeds (err == nil): either, while the
\* backend has transient errors
BackendAnswers == IF backendUp THEN {TRUE} ELSE BOOLEAN

Alive(i) == i \in 1..Len(loops) /\ ~panicked

\* mutant of AfterFailure: the goroutine returns after a failed attempt
AfterFailureReturns(l) ==
    [l EXCEPT !.pc = "returned", !.fails = Min(l.fails + 1, budget.fails), !.prev = "fail"]

\* if !ok { time.Sleep(retryDelay) ... }
AfterFailure(l) ==
    [l EXCEPT !.pc = "sleepFail", !.fails = Min(l.fails + 1, budget.fails), !.prev = "fail"]

\* else { if !firstTTL { time.Sleep(PingInterval) }; d.run(d.startRetryDelay) }
AfterSuccess(l, firstTTL) ==
    IF firstTTL
    THEN [l EXCEPT !.pc = "run", !.retryDelay = startRetryDelay, !.fails = 0, !.prev = "ok"]
    ELSE [l EXCEPT !.pc = "sleepOk", !.fails = 0, !.prev = "ok"]

\* Consul's run() sets firstTTL after a successful register (a TTL update
\* follows immediately); etcd's run() has no firstTTL
FirstTTL(be) == be = "consul"

\* run(): if !d.serviceInstance.isRegistered { register } else { ttlUpdate }
RunEntry(i) ==
    /\ Alive(i)
    /\ loops[i].pc = "run"
    /\ loops' = [loops EXCEPT ![i].inst = serviceInstance,
                              ![i].pc = IF ~objs[serviceInstance].isRegistered
                                        THEN "register" ELSE "ttlUpdate"]
    /\ attemptsAfter' = IF i <= deregAt THEN Min(attemptsAfter + 1, budget.after) ELSE attemptsAfter
    /\ UNCHANGED <<budget, backend, backendUp, baseURL, startRetryDelay, maxRetryDelay,
                   serviceInstance, objs, store, panicked, lastRet, deregDone, deregAt>>
    /\ UNCHANGED otherVars

\* mutant of RegisterCheck: a singleton conflict ends the goroutine
RegisterCheckFatal(i) ==
    /\ Alive(i)
    /\ loops[i].pc = "register"
    /\ \E queryOk \in BackendAnswers :
         LET cur   == objs[serviceInstance]
             found == IF backend = "consul"
                      THEN ConsulIsServiceRegistered(store, cur, queryOk)
                      ELSE EtcdIsServiceRegistered(store, cur, queryOk)
         IN  loops' = [loops EXCEPT ![i] =
                         IF found /\ objs[loops[i].inst].singleton
                         THEN [@ EXCEPT !.pc = "returned", !.prev = "fail"]
                         ELSE [@ EXCEPT !.pc = "doRegister"]]
    /\ UNCHANGED <<budget, backend, backendUp, baseURL, startRetryDelay, maxRetryDelay,
                   serviceInstance, objs, store, panicked, lastRet, deregDone, deregAt,
                   attemptsAfter>>
    /\ UNCHANGED otherVars

\* register(): if d.isServiceRegistered() && inst.singleton { return false }
RegisterCheck(i) ==
    /\ Alive(i)
    /\ loops[i].pc = "register"
    /\ \E queryOk \in BackendAnswers :
         LET cur   == objs[serviceInstance]
             found == IF backend = "consul"
                      THEN ConsulIsServiceRegistered(store, cur, queryOk)
                      ELSE EtcdIsServiceRegistered(store, cur, queryOk)
         IN  loops' = [loops EXCEPT ![i] =
                         IF found /\ objs[loops[i].inst].singleton
                         THEN AfterFailure(@)
                         ELSE [@ EXCEPT !.pc = "doRegister"]]
    /\ UNCHANGED <<budget, backend, backendUp, baseURL, startRetryDelay, maxRetryDelay,
                   serviceInstance, objs, store, panicked, lastRet, deregDone, deregAt,
                   attemptsAfter>>
    /\ UNCHANGED otherVars

\* api.AgentServiceRegistration of inst with its TTL check: a TTL check starts
\* critical; registering again may keep the status the check had
ConsulServiceRegister(st, inst, keep) ==
    Put(st, inst.key,
        [name |-> inst.name,
         st |-> IF keep /\ inst.key \in DOMAIN st THEN st[inst.key].st ELSE "critical",
         hasUrl |-> FALSE, url |-> "", status |-> "", ttl |-> TRUE])

\* kvClient.Set(etcdKeyDir, "", {TTL, Dir: true})
EtcdSetDir(st, cur) ==
    IF cur.key \in DOMAIN st
    THEN [st EXCEPT ![cur.key].ttl = TRUE]
    ELSE Put(st, cur.key,
             [name |-> cur.name, st |-> "dir", hasUrl |-> FALSE, url |-> "",
              status |-> "", ttl |-> TRUE])

\* kvClient.Set(etcdKeyDir+"/url", serviceURL, nil): creates the missing
\* parent directory, which then has no TTL
EtcdSetUrl(st, cur) ==
    IF cur.key \in DOMAIN st
    THEN [st EXCEPT ![cur.key].hasUrl = TRUE, ![cur.key].url = cur.baseURL]
    ELSE Put(st, cur.key,
             [name |-> cur.name, st |-> "dir", hasUrl |-> TRUE, url |-> cur.baseURL,
              status |-> "", ttl |-> FALSE])

\* the rest of register() and what run() does with its result
DoRegister(i) ==
    /\ Alive(i)
    /\ loops[i].pc = "doRegister"
    /\ \E ok \in BackendAnswers :
         IF ~ok
         THEN /\ loops' = [loops EXCEPT ![i] = AfterFailure(@)]
              /\ UNCHANGED <<objs, store>>
         ELSE IF backend = "consul"
         THEN /\ \E keep \in BOOLEAN :
                   store' = ConsulServiceRegister(store, objs[loops[i].inst], keep)
              /\ objs' = [objs EXCEPT ![serviceInstance].isRegistered = TRUE]
              /\ loops' = [loops EXCEPT ![i] = AfterSuccess(@, FirstTTL(backend))]
         ELSE /\ store' = EtcdSetDir(store, objs[serviceInstance])
              /\ loops' = [loops EXCEPT ![i].pc = "setUrl"]
              /\ UNCHANGED objs
    /\ UNCHANGED <<budget, backend, backendUp, baseURL, startRetryDelay, maxRetryDelay,
                   serviceInstance, panicked, lastRet, deregDone, deregAt, attemptsAfter>>
    /\ UNCHANGED otherVars

\* etcd register(): the second Set, and what run() does with the result
SetUrl(i) ==
    /\ Alive(i)
    /\ loops[i].pc = "setUrl"
    /\ \E ok \in BackendAnswers :
         IF ~ok
         THEN /\ loops' = [loops EXCEPT ![i] = AfterFailure(@)]
              /\ UNCHANGED <<objs, store>>
         ELSE /\ store' = EtcdSetUrl(store, objs[serviceInstance])
              /\ objs' = [objs EXCEPT ![serviceInstance].isRegistered = TRUE]
              /\ loops' = [loops EXCEPT ![i] = AfterSuccess(@, FirstTTL(backend))]
    /\ UNCHANGED <<budget, backend, backendUp, baseURL, startRetryDelay, maxRetryDelay,
                   serviceInstance, panicked, lastRet, deregDone, deregAt, attemptsAfter>>
    /\ UNCHANGED otherVars

\* UpdateTTL("check-"+inst.id, ..., "passing") / Set(inst.etcdKeyDir, {PrevExist, Refresh})
RefreshTTL(st, inst) ==
    [st EXCEPT ![inst.key].st = IF @ = "critical" THEN "passing" ELSE @,
               ![inst.key].ttl = TRUE]

\* ttlUpdate() and what run() does with its result
TtlUpdate(i) ==
    /\ Alive(i)
    /\ loops[i].pc = "ttlUpdate"
    /\ \E ok \in BackendAnswers :
         LET inst == objs[loops[i].inst]
         IN  IF ok /\ inst.key \in DOMAIN store
             THEN /\ store' = RefreshTTL(store, inst)
                  /\ loops' = [loops EXCEPT ![i] = AfterSuccess(@, FALSE)]
                  /\ UNCHANGED objs
             ELSE /\ objs' = [objs EXCEPT ![serviceInstance].isRegistered = FALSE]
                  /\ loops' = [loops EXCEPT ![i] = AfterFailure(@)]
                  /\ UNCHANGED store
    /\ UNCHANGED <<budget, backend, backendUp, baseURL, startRetryDelay, maxRetryDelay,
                   serviceInstance, panicked, lastRet, deregDone, deregAt, attemptsAfter>>
    /\ UNCHANGED otherVars

\* time.Sleep returns: newRetryDelay is computed / d.run(d.startRetryDelay)
Wake(i) ==
    /\ Alive(i)
    /\ loops[i].pc \in {"sleepFail", "sleepOk"}
    /\ loops' = [loops EXCEPT ![i].pc = "run",
                              ![i].retryDelay =
                                  IF loops[i].pc = "sleepFail"
                                  THEN NextRetryDelay(@, maxRetryDelay)
                                  ELSE startRetryDelay]
    /\ UNCHANGED <<budget, backend, backendUp, baseURL, startRetryDelay, maxRetryDelay,
                   serviceInstance, objs, store, panicked, lastRet, deregDone, deregAt,
                   attemptsAfter>>
    /\ UNCHANGED otherVars

----------------------------------------------------------------------------
(* The public operations *)

NoRet == [op |-> "none", id |-> "", err |-> FALSE]

NewLoop ==
    [pc |-> "run", retryDelay |-> startRetryDelay, inst |-> 0, fails |-> 0, prev |-> "none"]

\* the instances of obj's service (same name, environment and version) that
\* other processes keep healthy: passing in Consul; present, not disabled and
\* with a url in etcd
HealthyPeers(st, obj) ==
    {k \in DOMAIN st :
        /\ k # obj.key
        /\ st[k].name = obj.name
        /\ st[k].st \in {"passing", "dir"}
        /\ st[k].st = "dir" => (st[k].hasUrl /\ st[k].url # "" /\ st[k].status # "disabled")}

\* mutant of RegisterService: the singleton check is made by the call itself,
\* which returns no identity and an error on a conflict
RegisterServiceChecked(name, singleton) ==
    /\ ~panicked
    /\ Len(objs) < budget.calls
    /\ LET n   == Len(objs) + 1
           obj == NewInstance(backend, name, singleton, baseURL, UUIDs[n])
       IN  IF singleton /\ HealthyPeers(store, obj) # {}
           THEN /\ lastRet' = [op |-> "RegisterService", id |-> "", err |-> TRUE]
                /\ UNCHANGED <<objs, serviceInstance, loops>>
           ELSE /\ objs' = Append(objs, obj)
                /\ serviceInstance' = n
                /\ loops' = Append(loops, NewLoop)
                /\ lastRet' = [op |-> "RegisterService", id |-> obj.id, err |-> FALSE]
    /\ UNCHANGED <<budget, backend, backendUp, baseURL, startRetryDelay, maxRetryDelay, store,
                   panicked, deregDone, deregAt, attemptsAfter>>
    /\ UNCHANGED otherVars

\* RegisterService: allocate the instance, generate its id, go d.run(d.startRetryDelay),
\* return d.serviceInstance.id, nil
RegisterService(name, singleton) ==
    /\ ~panicked
    /\ Len(objs) < budget.calls
    /\ LET n   == Len(objs) + 1
           obj == NewInstance(backend, name, singleton, baseURL, UUIDs[n])
       IN  /\ objs' = Append(objs, [obj EXCEPT !.peerSince = singleton /\ HealthyPeers(store, obj) # {}])
           /\ serviceInstance' = n
           /\ loops' = Append(loops, NewLoop)
           /\ lastRet' = [op |-> "RegisterService", id |-> obj.id, err |-> FALSE]
    /\ UNCHANGED <<budget, backend, backendUp, baseURL, startRetryDelay, maxRetryDelay, store,
                   panicked, deregDone, deregAt, attemptsAfter>>
    /\ UNCHANGED otherVars

\* mutant of BackendDelete: every instance of the service is removed
BackendDeleteByName(st, inst) == [k \in {x \in DOMAIN st : st[x].name # inst.name} |-> st[k]]

\* client.Agent().ServiceDeregister(id) / kvClient.Delete(etcdKeyDir, {Recursive, Dir})
BackendDelete(st, inst) == Remove(st, inst.key)

\* DeregisterService: d.serviceInstance.id is read first (a nil serviceInstance
\* is a nil pointer dereference), then the record of that id is deleted
DeregisterService ==
    /\ ~panicked
    /\ deregDone < budget.deregs
    /\ IF serviceInstance = 0
       THEN /\ panicked' = TRUE
            /\ UNCHANGED <<store, deregDone, deregAt, attemptsAfter>>
       ELSE /\ \E ok \in BackendAnswers :
                 IF ok /\ objs[serviceInstance].key \in DOMAIN store
                 THEN store' = BackendDelete(store, objs[serviceInstance])
                 ELSE UNCHANGED store
            /\ deregDone' = deregDone + 1
            /\ deregAt' = IF deregDone = 0 THEN Len(loops) ELSE deregAt
            /\ UNCHANGED <<panicked, attemptsAfter>>
    /\ UNCHANGED <<budget, backend, backendUp, baseURL, startRetryDelay, maxRetryDelay,
                   serviceInstance, objs, loops, lastRet>>
    /\ UNCHANGED otherVars

----------------------------------------------------------------------------
(* The environment: the backend's clock and the other processes *)

\* history: peerSince falls once no healthy peer is left
TrackPeers(os, st) ==
    [k \in 1..Len(os) |-> [os[k] EXCEPT !.peerSince = @ /\ HealthyPeers(st, os[k]) # {}]]

\* A TTL runs out.  Consul turns a passing check critical and removes a
\* service whose check stays critical (DeregisterCriticalServiceAfter); etcd
\* removes the directory.
Expire(key) ==
    /\ key \in DOMAIN store
    /\ store[key].ttl
    /\ store' = IF store[key].st = "passing"
                THEN [store EXCEPT ![key].st = "critical"]
                ELSE Remove(store, key)
    /\ objs' = TrackPeers(objs, store')
    /\ UNCHANGED <<budget, backend, backendUp, baseURL, startRetryDelay, maxRetryDelay,
                   serviceInstance, loops, panicked, lastRet, deregDone, deregAt, attemptsAfter>>
    /\ UNCHANGED otherVars

\* Another process has registered an instance of service name and keeps it
\* refreshed: it is passing (Consul), or a directory with a url key (etcd)
ForeignRegister(name, url, status) ==
    /\ \A k \in DOMAIN store : \E j \in 1..Len(objs) : objs[j].key = k
    /\ LET f == NewInstance(backend, name, FALSE, url, ForeignUUID)
       IN  store' = Put(store, f.key,
                        IF backend = "consul"
                        THEN [name |-> f.name, st |-> "passing", hasUrl |-> FALSE,
                              url |-> "", status |-> "", ttl |-> TRUE]
                        ELSE [name |-> f.name, st |-> "dir", hasUrl |-> TRUE,
                              url |-> url, status |-> status, ttl |-> TRUE])
    /\ UNCHANGED <<budget, backend, backendUp, baseURL, startRetryDelay, maxRetryDelay,
                   serviceInstance, objs, loops, panicked, lastRet, deregDone, deregAt,
                   attemptsAfter>>
    /\ UNCHANGED otherVars

\* The backend's transient errors end: from now on it accepts every call
BackendRecovers ==
    /\ ~backendUp
    /\ backendUp' = TRUE
    /\ UNCHANGED <<budget, backend, baseURL, startRetryDelay, maxRetryDelay, serviceInstance,
                   objs, loops, store, panicked, lastRet, deregDone, deregAt, attemptsAfter>>
    /\ UNCHANGED otherVars

\* the record of key is being refreshed: it is the record of the handle's
\* instance, which is registered, and the backend accepts the TTL updates
KeptAlive(key) ==
    /\ backendUp
    /\ serviceInstance # 0
    /\ objs[serviceInstance].key = key
    /\ objs[serviceInstance].isRegistered

\* a TTL runs out on a record that is not being refreshed in time
ExpireStale(key) == ~KeptAlive(key) /\ Expire(key)

----------------------------------------------------------------------------
(* Discovery.  The backend answers a query with the records of the service: *)
(* Consul with the passing service entries (id, tags, address, port), etcd  *)
(* with the tree of version directories, each holding instance              *)
(* directories whose url child is the direct URL.                           *)

DiscoverNames == {"svc", "other"}
RawVersions == {"1.0.0", "2.0.0", "1.0", "abc"}
GatewayValues == {"", "http://gw1", "http://gw2"}
AccessTypeGateway == "GATEWAY"
AccessTypeDirect == "DIRECT"

\* semver.ParseTolerant: a missing patch number is filled in, anything that
\* is not a number fails
ParseTolerant(raw) ==
    CASE raw = "1.0.0" -> [ok |-> TRUE, v |-> <<1, 0, 0>>]
      [] raw = "1.0"   -> [ok |-> TRUE, v |-> <<1, 0, 0>>]
      [] raw = "2.0.0" -> [ok |-> TRUE, v |-> <<2, 0, 0>>]
      [] OTHER         -> [ok |-> FALSE, v |-> <<0, 0, 0>>]

\* semver.Version.String()
VersionString(v) == ToString(v[1]) \o "." \o ToString(v[2]) \o "." \o ToString(v[3])

\* fmt.Sprintf("/environments/%s/services/%s/%s", env, name, version.String())
WatcherNamespace(env, name, v) == EtcdNamespace(env, name, VersionString(v))

\* the watcher namespaces of the services and versions of the model, tabulated
ParsedVersions == { <<1, 0, 0>>, <<2, 0, 0>> }

WatcherNamespaceOf ==
    [env \in {EnvName} |->
        [n \in DiscoverNames |-> [w \in ParsedVersions |-> WatcherNamespace(env, n, w)]]]

\* the namespaces a gatewayUrl key can be configured for
Namespaces ==
    { WatcherNamespace(EnvName, "svc", <<1, 0, 0>>), WatcherNamespace(EnvName, "svc", <<2, 0, 0>>),
      WatcherNamespace(EnvName, "other", <<1, 0, 0>>) }

\* the tag RegisterService gives a Consul instance of version raw
VersionTag(raw) == "version=" \o raw

VersionTags == {VersionTag(r) : r \in RawVersions}

\* the part of a version tag after "="
TagValue == [t \in VersionTags |-> CHOOSE r \in RawVersions : t = VersionTag(r)]

\* strings.HasPrefix(tag, "version")
HasPrefixVersion(tag) == tag = "version" \/ tag \in VersionTags

\* strings.Split(tag, "=")
SplitTag(tag) ==
    IF tag \in VersionTags
    THEN <<"version", TagValue[tag]>>
    ELSE <<tag>>

\* fmt.Sprintf("%s://%s:%d", protocol, addr, serviceEntry.Service.Port)
ConsulDirectURL(protocol, addr, port) == protocol \o "://" \o addr \o ":" \o ToString(port)

ConsulAddresses == {"10.0.0.4", "10.0.0.5", "10.0.0.6", "10.0.0.7", "10.0.0.8", "10.0.0.9"}

\* the direct URLs of the addresses of the model, tabulated
ConsulDirectURLOf ==
    [p \in {"http", "https"} |->
        [a \in ConsulAddresses |-> [q \in {8080} |-> ConsulDirectURL(p, a, q)]]]

\* the Consul records of service name that the health query may return
ConsulEntry(id, tags, address) ==
    [id |-> id, tags |-> tags, address |-> address, nodeAddress |-> "10.0.0.9", port |-> 8080]

ConsulResults(name) ==
    IF name = "other"
    THEN { << ConsulEntry(name \o "-a", <<"http", VersionTag("1.0.0")>>, "10.0.0.4") >> }
    ELSE
    { <<>>,
      << ConsulEntry(name \o "-a", <<"http", VersionTag("1.0.0")>>, "10.0.0.5") >>,
      << ConsulEntry(name \o "-a", <<"http", VersionTag("1.0.0")>>, "10.0.0.5"),
         ConsulEntry(name \o "-b", <<"https", VersionTag("2.0.0")>>, "") >>,
      << ConsulEntry(name \o "-c", <<VersionTag("abc"), "https">>, "10.0.0.7"),
         ConsulEntry(name \o "-d", <<VersionTag("1.0")>>, "10.0.0.6"),
         ConsulEntry(name \o "-a", <<"http", VersionTag("1.0.0")>>, "10.0.0.5") >>,
      << ConsulEntry(name \o "-e", <<"https">>, "10.0.0.8") >>,
      << ConsulEntry(name \o "-a", <<"http", VersionTag("1.0.0")>>, "10.0.0.5"),
         ConsulEntry(name \o "-f", <<"version">>, "10.0.0.8") >> }

\* the etcd tree under environments/<env>/services/<name>/: version
\* directories with their instances child (or without one) and the instance
\* directories in it, whose url key is written by a second Set
EtcdInstanceNode(id, hasUrl, url) == [id |-> id, hasUrl |-> hasUrl, url |-> url]

EtcdVersionNode(key, hasInstances, instances) ==
    [key |-> key, hasInstances |-> hasInstances, instances |-> instances]

EtcdResults(name) ==
    IF name = "other"
    THEN { << EtcdVersionNode("1.0.0", TRUE, <<EtcdInstanceNode("a", TRUE, "http://10.0.0.4:8080")>>) >> }
    ELSE
    { <<>>,
      << EtcdVersionNode("1.0.0", TRUE, <<EtcdInstanceNode("a", TRUE, "http://10.0.0.5:8080")>>) >>,
      << EtcdVersionNode("1.0.0", TRUE, <<EtcdInstanceNode("a", TRUE, "http://10.0.0.5:8080")>>),
         EtcdVersionNode("2.0.0", TRUE, <<EtcdInstanceNode("b", TRUE, "https://10.0.0.9:8080")>>) >>,
      << EtcdVersionNode("abc", TRUE, <<EtcdInstanceNode("c", TRUE, "https://10.0.0.7:8080")>>),
         EtcdVersionNode("1.0", TRUE, <<EtcdInstanceNode("d", TRUE, "http://10.0.0.6:8080"),
                                        EtcdInstanceNode("a", TRUE, "http://10.0.0.5:8080")>>) >>,
      << EtcdVersionNode("1.0.0", TRUE, <<EtcdInstanceNode("e", FALSE, "")>>) >>,
      << EtcdVersionNode("1.0.0", TRUE, <<EtcdInstanceNode("a", TRUE, "http://10.0.0.5:8080")>>),
         EtcdVersionNode("2.0.0", FALSE, <<>>) >> }

HasWatch(urls, ns) == \E k \in 1..Len(urls) : urls[k].gatewayID = ns

\* mutant of EnsureWatch: the watch is made for every discovered instance
EnsureWatchAlways(acc, ns, cfg) ==
    [acc EXCEPT !.gw = Append(@, [gatewayID |-> ns, gatewayURL |-> cfg[ns]]),
                !.subs = Append(@, ns)]

\* add a watch for gatewayUrl (if not already made): g, _ := util.GetString("gatewayUrl"),
\* the entry is appended and the callback subscribed
EnsureWatch(acc, ns, cfg) ==
    IF HasWatch(acc.gw, ns) THEN acc
    ELSE [acc EXCEPT !.gw = Append(@, [gatewayID |-> ns, gatewayURL |-> cfg[ns]]),
                     !.subs = Append(@, ns)]

\* mutant of GatewayCallback: the value is written to every entry
GatewayCallbackAll(urls, ns, value) ==
    [k \in 1..Len(urls) |-> [urls[k] EXCEPT !.gatewayURL = value]]

\* the callback subscribed for namespace ns: the first entry of that
\* gatewayID takes the value
GatewayCallback(urls, ns, value) ==
    IF ~HasWatch(urls, ns) THEN urls
    ELSE LET k == CHOOSE j \in 1..Len(urls) :
                      /\ urls[j].gatewayID = ns
                      /\ \A m \in 1..(j - 1) : urls[m].gatewayID # ns
         IN  [urls EXCEPT ![k].gatewayURL = value]

\* mutant of TagStep: a version that does not parse fails the call
TagStepFatal(acc, tag) ==
    IF acc.brk \/ acc.panic THEN acc
    ELSE IF HasPrefixVersion(tag)
    THEN LET t == SplitTag(tag)
         IN  IF Len(t) < 2 THEN [acc EXCEPT !.panic = TRUE]
             ELSE LET p == ParseTolerant(t[2])
                  IN  IF ~p.ok THEN [acc EXCEPT !.panic = TRUE]
                      ELSE [acc EXCEPT !.version = p.v, !.versionOk = TRUE]
    ELSE IF tag = "https" THEN [acc EXCEPT !.protocol = "https"]
    ELSE acc

\* one tag of a Consul service entry
TagStep(acc, tag) ==
    IF acc.brk \/ acc.panic THEN acc
    ELSE IF HasPrefixVersion(tag)
    THEN LET t == SplitTag(tag)
         IN  IF Len(t) < 2 THEN [acc EXCEPT !.panic = TRUE]
             ELSE LET p == ParseTolerant(t[2])
                  IN  IF ~p.ok THEN [acc EXCEPT !.versionOk = FALSE, !.brk = TRUE]
                      ELSE [acc EXCEPT !.version = p.v, !.versionOk = TRUE]
    ELSE IF tag = "https" THEN [acc EXCEPT !.protocol = "https"]
    ELSE acc

RECURSIVE ParseTags(_, _, _)
ParseTags(tags, k, acc) ==
    IF k > Len(tags) THEN acc ELSE ParseTags(tags, k + 1, TagStep(acc, tags[k]))

\* one service entry of the Consul answer, t being what its tags say
ConsulEntryTagged(acc, e, t, opts, cfg) ==
    IF t.panic THEN [acc EXCEPT !.panic = TRUE]
    ELSE IF ~t.versionOk THEN acc
    ELSE LET addr == IF e.address # "" THEN e.address ELSE e.nodeAddress
             inst == [id |-> e.id, version |-> t.version,
                      directURL |-> ConsulDirectURLOf[t.protocol][addr][e.port]]
         IN  EnsureWatch([acc EXCEPT !.inst = Append(@, inst)],
                         WatcherNamespaceOf[opts.Environment][opts.Value][t.version], cfg)

\* one service entry of the Consul answer
ConsulEntryStep(acc, e, opts, cfg) ==
    IF acc.panic THEN acc
    ELSE ConsulEntryTagged(acc, e,
                           ParseTags(e.tags, 1, [versionOk |-> FALSE, version |-> <<0, 0, 0>>,
                                                 protocol |-> "http", brk |-> FALSE,
                                                 panic |-> FALSE]),
                           opts, cfg)

RECURSIVE ConsulParse(_, _, _, _, _)
ConsulParse(entries, k, acc, opts, cfg) ==
    IF k > Len(entries) THEN acc
    ELSE ConsulParse(entries, k + 1, ConsulEntryStep(acc, entries[k], opts, cfg), opts, cfg)

\* one instance directory of an etcd version directory (its version parsed)
EtcdInstanceStep(acc, n, v, opts, cfg) ==
    LET inst == [id |-> n.id, version |-> v, directURL |-> IF n.hasUrl THEN n.url ELSE ""]
    IN  EnsureWatch([acc EXCEPT !.inst = Append(@, inst)],
                    WatcherNamespaceOf[opts.Environment][opts.Value][v], cfg)

RECURSIVE EtcdInstances(_, _, _, _, _, _)
EtcdInstances(nodes, k, acc, v, opts, cfg) ==
    IF k > Len(nodes) THEN acc
    ELSE EtcdInstances(nodes, k + 1, EtcdInstanceStep(acc, nodes[k], v, opts, cfg), v, opts, cfg)

\* one version directory of the etcd answer: instances.Nodes of a directory
\* without an instances child is a nil pointer dereference; a version that
\* does not parse breaks out of the directory at its first instance
EtcdVersionStep(acc, nv, opts, cfg) ==
    IF acc.panic THEN acc
    ELSE IF ~nv.hasInstances THEN [acc EXCEPT !.panic = TRUE]
    ELSE LET p == ParseTolerant(nv.key)
         IN  IF ~p.ok THEN acc
             ELSE EtcdInstances(nv.instances, 1, acc, p.v, opts, cfg)

RECURSIVE EtcdParse(_, _, _, _, _)
EtcdParse(nodes, k, acc, opts, cfg) ==
    IF k > Len(nodes) THEN acc
    ELSE EtcdParse(nodes, k + 1, EtcdVersionStep(acc, nodes[k], opts, cfg), opts, cfg)

\* fillDefaultDiscoverOptions
NoSelector == [op |-> "", v |-> <<0, 0, 0>>]

FillDefaultDiscoverOptions(o) ==
    [Value       |-> o.Value,
     Environment |-> IF o.Environment = "" THEN EnvName ELSE o.Environment,
     Version     |-> IF o.Version = NoSelector THEN Star ELSE o.Version,
     AccessType  |-> IF o.AccessType = "" THEN AccessTypeGateway ELSE o.AccessType]

DiscoverOption(name, env, sel, access) ==
    [Value |-> name, Environment |-> env, Version |-> sel, AccessType |-> access]

\* the options the caller passes
DiscoverOptions ==
    { DiscoverOption("svc", "", NoSelector, ""),
      DiscoverOption("svc", "", NoSelector, AccessTypeDirect),
      DiscoverOption("svc", EnvName, [op |-> "=", v |-> <<1, 0, 0>>], AccessTypeGateway),
      DiscoverOption("svc", EnvName, [op |-> "^", v |-> <<1, 3, 0>>], AccessTypeDirect),
      DiscoverOption("other", "", Star, AccessTypeGateway) }

\* the cached gateway URL of a namespace, "" when there is no entry
CachedURL(urls, ns) ==
    IF ~HasWatch(urls, ns) THEN ""
    ELSE LET k == CHOOSE j \in 1..Len(urls) :
                      /\ urls[j].gatewayID = ns
                      /\ \A m \in 1..(j - 1) : urls[m].gatewayID # ns
         IN  urls[k].gatewayURL

\* mutant of ResolveAddress: the access type is not looked at
ResolveAddressGatewayAlways(accessType, G, D) == IF G # "" THEN G ELSE D

\* the address of the selected instance
ResolveAddress(accessType, G, D) ==
    IF accessType = AccessTypeGateway /\ G # "" THEN G ELSE D

\* mutant of CandidatesOf: every discovered instance is a candidate
CandidatesOfAny(instances, r) ==
    IF ~r.found THEN {} ELSE 1..Len(instances)

\* the instances pickRandomServiceInstance chooses among: those of the
\* resolved version
CandidatesOf(instances, r) ==
    IF ~r.found THEN {} ELSE {k \in 1..Len(instances) : instances[k].version = r.v}

Candidates(instances, opts) ==
    CandidatesOf(instances,
                 ResolveVersion([k \in 1..Len(instances) |-> instances[k].version], opts.Version))

\* the instance drawn has direct URL D and namespace ns
PickedInstance(urls, opts, D, ns, id) ==
    [service |-> ResolveAddress(opts.AccessType, CachedURL(urls, ns), D),
     err |-> FALSE, picked |-> TRUE, D |-> D, ns |-> ns, id |-> id]

\* pickRandomServiceInstance when instance k is drawn (k = 0: no candidate,
\* the last known service comes back with the error)
PickServiceInstance(instances, urls, opts, lks, k) ==
    IF k = 0
    THEN [service |-> lks, err |-> TRUE, picked |-> FALSE, D |-> "", ns |-> "", id |-> ""]
    ELSE PickedInstance(urls, opts, instances[k].directURL,
                        WatcherNamespaceOf[opts.Environment][opts.Value][instances[k].version],
                        instances[k].id)

NoDiscRet ==
    [url |-> "", err |-> FALSE, queryFailed |-> FALSE, picked |-> FALSE, D |-> "",
     ns |-> "", access |-> "", name |-> "", sel |-> NoSelector, id |-> "",
     answer |-> <<>>, ids |-> <<>>]

\* the query returned an error: the last known service, or the error
QueryFailure(lks) ==
    IF lks # "" THEN [url |-> lks, err |-> FALSE] ELSE [url |-> "", err |-> TRUE]

\* mutant of DiscoverReturn: an error of pickRandomServiceInstance is always
\* returned
DiscoverReturnNoFallback(pick, lks) ==
    IF pick.err
    THEN [url |-> "", err |-> TRUE, lks |-> lks]
    ELSE [url |-> pick.service, err |-> FALSE, lks |-> pick.service]

\* mutant of DiscoverReturn: d.lastKnownService is set by the first
\* successful discovery only
DiscoverReturnKeepsFirst(pick, lks) ==
    IF pick.err
    THEN IF pick.service # ""
         THEN [url |-> lks, err |-> FALSE, lks |-> lks]
         ELSE [url |-> "", err |-> TRUE, lks |-> lks]
    ELSE [url |-> pick.service, err |-> FALSE, lks |-> IF lks # "" THEN lks ELSE pick.service]

\* what DiscoverService does with the result of pickRandomServiceInstance:
\* [url, err] returned and the new d.lastKnownService
DiscoverReturn(pick, lks) ==
    IF pick.err
    THEN IF pick.service # ""
         THEN [url |-> lks, err |-> FALSE, lks |-> lks]
         ELSE [url |-> "", err |-> TRUE, lks |-> lks]
    ELSE [url |-> pick.service, err |-> FALSE, lks |-> pick.service]

\* the ids of the discovered instances, in order
InstanceIDs(instances) == [k \in 1..Len(instances) |-> instances[k].id]

\* the loop of DiscoverService over the answer of the query: the discovered
\* instances, d.gatewayURLs and the subscriptions after it, or a panic
ParseResult(result, opts, urls, ss, cfg) ==
    IF backend = "consul"
    THEN ConsulParse(result, 1, [inst |-> <<>>, gw |-> urls, subs |-> ss, panic |-> FALSE],
                     opts, cfg)
    ELSE EtcdParse(result, 1, [inst |-> <<>>, gw |-> urls, subs |-> ss, panic |-> FALSE],
                   opts, cfg)

\* the results pickRandomServiceInstance can come to, one for each instance
\* it can draw
PicksOf(instances, urls, opts, lks, cand) ==
    { PickServiceInstance(instances, urls, opts, lks, k) :
         k \in (IF cand = {} THEN {0} ELSE cand) }

Picks(instances, urls, opts, lks) ==
    PicksOf(instances, urls, opts, lks, Candidates(instances, opts))

\* DiscoverService(options): queryOk tells whether the backend query
\* succeeded, result is its answer
DiscoverService(options, queryOk, result) ==
    /\ ~panicked
    /\ discCalls < budget.disc
    /\ discCalls' = discCalls + 1
    /\ LET opts == FillDefaultDiscoverOptions(options)
           ret0 == [NoDiscRet EXCEPT !.access = opts.AccessType, !.name = opts.Value,
                                     !.sel = opts.Version]
       IN  IF ~queryOk
           THEN LET r == QueryFailure(lastKnownService)
                IN  /\ discRet' = [ret0 EXCEPT !.url = r.url, !.err = r.err, !.queryFailed = TRUE]
                    /\ UNCHANGED <<lastKnownService, gatewayURLs, subs, lastGood, panicked>>
           ELSE \E acc \in {ParseResult(result, opts, gatewayURLs, subs, gatewayCfg)} :
                    /\ gatewayURLs' = acc.gw
                    /\ subs' = acc.subs
                    /\ IF acc.panic
                       THEN /\ panicked' = TRUE
                            /\ discRet' = [ret0 EXCEPT !.answer = result]
                            /\ UNCHANGED <<lastKnownService, lastGood>>
                       ELSE /\ UNCHANGED panicked
                            /\ \E pick \in Picks(acc.inst, acc.gw, opts, lastKnownService) :
                                 \E r \in {DiscoverReturn(pick, lastKnownService)} :
                                     /\ lastKnownService' = r.lks
                                     /\ discRet' = [ret0 EXCEPT !.url = r.url, !.err = r.err,
                                                                !.picked = pick.picked,
                                                                !.D = pick.D, !.ns = pick.ns,
                                                                !.id = pick.id,
                                                                !.answer = result,
                                                                !.ids = InstanceIDs(acc.inst)]
                                     /\ lastGood' = IF pick.err THEN lastGood
                                                    ELSE [had |-> TRUE, url |-> r.url,
                                                          name |-> opts.Value,
                                                          n |-> lastGood.n + 1]
    /\ UNCHANGED <<gatewayCfg, gwChanges, notified, inFlight, pending>>
    /\ UNCHANGED <<budget, backend, backendUp, baseURL, startRetryDelay, maxRetryDelay, serviceInstance,
                   objs, loops, store, lastRet, deregDone, deregAt, attemptsAfter>>
    /\ UNCHANGED verVars

\* the elements of a finite set in some order
SeqOfSet(S) ==
    CHOOSE f \in [1..Cardinality(S) -> S] : \A i, j \in 1..Cardinality(S) : f[i] = f[j] => i = j

\* path.Base of an instance directory: the id of the instance
IdOfKey(os, key) ==
    IF \E j \in 1..Len(os) : os[j].key = key
    THEN os[CHOOSE j \in 1..Len(os) : os[j].key = key].id
    ELSE ForeignUUID

\* what the Get of environments/<env>/services/<name>/ answers when the
\* registry is st: the version directory of the service with the instance
\* directories there are (an instance directory has a url child once the
\* second Set of register() was made)
EtcdAnswer(st, os, name) ==
    LET ns   == WatcherNamespaceOf[EnvName][name][<<1, 0, 0>>]
        keys == SeqOfSet({k \in DOMAIN st : st[k].name = ns})
    IN  << EtcdVersionNode(Version, TRUE,
                           [j \in 1..Len(keys) |->
                               EtcdInstanceNode(IdOfKey(os, keys[j]), st[keys[j]].hasUrl,
                                                st[keys[j]].url)]) >>

\* DiscoverService on the etcd backend, answered from the registry as it is
\* at the time of the query
DiscoverRegistered(options) ==
    /\ backend = "etcd"
    /\ \E queryOk \in BOOLEAN :
          DiscoverService(options, queryOk, EtcdAnswer(store, objs, options.Value))

\* The gatewayUrl key of namespace ns changes to value: the configuration
\* source calls the callback subscribed for ns, if there is one
GatewayUrlChange(ns, value) ==
    /\ ~panicked
    /\ gatewayCfg[ns] # value
    /\ gwChanges < MaxGatewayChanges
    /\ gwChanges' = gwChanges + 1
    /\ gatewayCfg' = [gatewayCfg EXCEPT ![ns] = value]
    /\ IF \E k \in 1..Len(subs) : subs[k] = ns
       THEN /\ gatewayURLs' = GatewayCallback(gatewayURLs, ns, value)
            /\ notified' = notified \cup {ns}
       ELSE UNCHANGED <<gatewayURLs, notified>>
    /\ UNCHANGED <<lastKnownService, subs, discRet, discCalls, lastGood, inFlight, pending>>
    /\ UNCHANGED regVars
    /\ UNCHANGED verVars

----------------------------------------------------------------------------
(* Concurrent DiscoverService calls.  The handle has no lock: each call     *)
(* goes through the watch part for the instance it discovered and through   *)
(* the return one memory access at a time, and the configuration source     *)
(* runs the subscribed callbacks on its own goroutines.  inFlight[t] is at  *)
(*   "idle"      not called                                                 *)
(*   "scan"      before the hasWatch loop over d.gatewayURLs                *)
(*   "getString" before util.GetString("gatewayUrl")                        *)
(*   "load"      in append: before d.gatewayURLs is read                    *)
(*   "store"     in append: before d.gatewayURLs is assigned                *)
(*   "subscribe" before util.Subscribe                                      *)
(*   "pick"      before pickRandomServiceInstance(..., d.gatewayURLs, ...,  *)
(*               d.lastKnownService)                                        *)
(*   "return"    before d.lastKnownService = service                        *)
(*   "done"      returned                                                   *)
(* ns is the watcherNamespace of the discovered instance, g the value read  *)
(* by GetString, n the length of the slice append read, service the result  *)
(* of the pick.                                                             *)

ConcurrentCalls == {1, 2}

IdleCall == [pc |-> "idle", ns |-> "", g |-> "", n |-> 0, service |-> ""]

\* the direct URL of the instance call t discovers
DirectURLOfCall == [t \in ConcurrentCalls |-> ConsulDirectURLOf["http"]["10.0.0.5"][8080]]

\* what the concurrent calls leave alone
callFrame == <<discRet, discCalls, lastGood, gwChanges, notified, pending, gatewayCfg>>

\* DiscoverService is called and its query is answered with an instance of
\* namespace ns
CallDiscovers(t, ns) ==
    /\ ~panicked
    /\ inFlight[t].pc = "idle"
    /\ inFlight' = [inFlight EXCEPT ![t].pc = "scan", ![t].ns = ns]
    /\ UNCHANGED <<lastKnownService, gatewayURLs, subs>>
    /\ UNCHANGED callFrame
    /\ UNCHANGED <<regVars, verVars>>

\* for _, w := range d.gatewayURLs { if w.gatewayID == watcherNamespace ... }
CallScan(t) ==
    /\ inFlight[t].pc = "scan"
    /\ inFlight' = [inFlight EXCEPT ![t].pc = IF HasWatch(gatewayURLs, inFlight[t].ns)
                                              THEN "pick" ELSE "getString"]
    /\ UNCHANGED <<lastKnownService, gatewayURLs, subs>>
    /\ UNCHANGED callFrame
    /\ UNCHANGED <<regVars, verVars>>

\* g, _ := util.GetString("gatewayUrl")
CallGetString(t) ==
    /\ inFlight[t].pc = "getString"
    /\ inFlight' = [inFlight EXCEPT ![t].pc = "load", ![t].g = gatewayCfg[inFlight[t].ns]]
    /\ UNCHANGED <<lastKnownService, gatewayURLs, subs>>
    /\ UNCHANGED callFrame
    /\ UNCHANGED <<regVars, verVars>>

\* append(d.gatewayURLs, ...): the slice is read
CallLoad(t) ==
    /\ inFlight[t].pc = "load"
    /\ inFlight' = [inFlight EXCEPT ![t].pc = "store", ![t].n = Len(gatewayURLs)]
    /\ UNCHANGED <<lastKnownService, gatewayURLs, subs>>
    /\ UNCHANGED callFrame
    /\ UNCHANGED <<regVars, verVars>>

\* d.gatewayURLs = append(...): the slice that was read, with the new entry
\* after its last element, is assigned (the entries are pointers, so the
\* elements kept are the entries as they are now)
CallStore(t) ==
    /\ inFlight[t].pc = "store"
    /\ gatewayURLs' = Append(SubSeq(gatewayURLs, 1, inFlight[t].n),
                              [gatewayID |-> inFlight[t].ns, gatewayURL |-> inFlight[t].g])
    /\ inFlight' = [inFlight EXCEPT ![t].pc = "subscribe"]
    /\ UNCHANGED <<lastKnownService, subs>>
    /\ UNCHANGED callFrame
    /\ UNCHANGED <<regVars, verVars>>

\* util.Subscribe("gatewayUrl", func ...)
CallSubscribe(t) ==
    /\ inFlight[t].pc = "subscribe"
    /\ subs' = Append(subs, inFlight[t].ns)
    /\ inFlight' = [inFlight EXCEPT ![t].pc = "pick"]
    /\ UNCHANGED <<lastKnownService, gatewayURLs>>
    /\ UNCHANGED callFrame
    /\ UNCHANGED <<regVars, verVars>>

\* service, err := pickRandomServiceInstance(discoveredInstances, d.gatewayURLs,
\* options, d.lastKnownService) with the default access type
CallPick(t) ==
    /\ inFlight[t].pc = "pick"
    /\ inFlight' = [inFlight EXCEPT
                       ![t].pc = "return",
                       ![t].service = ResolveAddress(AccessTypeGateway,
                                                     CachedURL(gatewayURLs, inFlight[t].ns),
                                                     DirectURLOfCall[t])]
    /\ UNCHANGED <<lastKnownService, gatewayURLs, subs>>
    /\ UNCHANGED callFrame
    /\ UNCHANGED <<regVars, verVars>>

\* d.lastKnownService = service; return service, nil
CallReturn(t) ==
    /\ inFlight[t].pc = "return"
    /\ lastKnownService' = inFlight[t].service
    /\ inFlight' = [inFlight EXCEPT ![t].pc = "done"]
    /\ UNCHANGED <<gatewayURLs, subs>>
    /\ UNCHANGED callFrame
    /\ UNCHANGED <<regVars, verVars>>

\* the notifications of a change of the gatewayUrl key of ns: one for each
\* callback subscribed for ns
NotificationsOf(ss, ns, value) ==
    [k \in 1..Cardinality({j \in 1..Len(ss) : ss[j] = ns}) |-> [ns |-> ns, value |-> value]]

\* The gatewayUrl key of namespace ns changes to value: the configuration
\* source will call the callbacks subscribed for ns
ConfigChange(ns, value) ==
    /\ ~panicked
    /\ gatewayCfg[ns] # value
    /\ gwChanges < MaxGatewayChanges
    /\ gwChanges' = gwChanges + 1
    /\ gatewayCfg' = [gatewayCfg EXCEPT ![ns] = value]
    /\ pending' = pending \o NotificationsOf(subs, ns, value)
    /\ UNCHANGED <<lastKnownService, gatewayURLs, subs, discRet, discCalls, lastGood, notified,
                   inFlight>>
    /\ UNCHANGED <<regVars, verVars>>

\* the callback of the oldest pending notification runs
CallbackRuns ==
    /\ pending # <<>>
    /\ pending' = Tail(pending)
    /\ gatewayURLs' = GatewayCallback(gatewayURLs, Head(pending).ns, Head(pending).value)
    /\ notified' = IF HasWatch(gatewayURLs, Head(pending).ns)
                    THEN notified \cup {Head(pending).ns} ELSE notified
    /\ UNCHANGED <<lastKnownService, subs, gatewayCfg, discRet, discCalls, lastGood, gwChanges,
                   inFlight>>
    /\ UNCHANGED <<regVars, verVars>>

----------------------------------------------------------------------------

InitCommon ==
    /\ backend \in Backends
    /\ backendUp = FALSE
    /\ baseURL \in (IF backend = "consul" THEN {""} ELSE BaseURLs)
    /\ serviceInstance = 0
    /\ objs = <<>>
    /\ loops = <<>>
    /\ store = EmptyStore
    /\ panicked = FALSE
    /\ lastRet = NoRet
    /\ deregDone = 0
    /\ deregAt = 0
    /\ attemptsAfter = 0

\* no version resolution is under way
IdleVersion ==
    /\ verList = <<>>
    /\ verSel = Star
    /\ verOut = NoVersion

\* no discovery has been made: newConsulDiscoverySource / newEtcdDiscoverySource
\* leave lastKnownService and gatewayURLs at their zero values
IdleDiscovery ==
    /\ lastKnownService = ""
    /\ gatewayURLs = <<>>
    /\ subs = <<>>
    /\ gatewayCfg = [ns \in Namespaces |-> ""]
    /\ discRet = NoDiscRet
    /\ discCalls = 0
    /\ lastGood = [had |-> FALSE, url |-> "", name |-> "", n |-> 0]
    /\ gwChanges = 0
    /\ notified = {}
    /\ inFlight = [t \in ConcurrentCalls |-> IdleCall]
    /\ pending = <<>>

\* a handle on which RegisterService is called once
Init ==
    /\ InitCommon
    /\ IdleVersion
    /\ IdleDiscovery
    /\ budget = [calls |-> 1, deregs |-> MaxDeregisterCalls, fails |-> 0, after |-> 0, disc |-> 0]
    /\ startRetryDelay = 1
    /\ maxRetryDelay = 1

\* the goroutine of a single RegisterService call, under every retry
\* configuration
InitRetry ==
    /\ InitCommon
    /\ IdleVersion
    /\ IdleDiscovery
    /\ budget = [calls |-> 1, deregs |-> 0, fails |-> MaxFails, after |-> 0, disc |-> 0]
    /\ \E c \in RetryConfigs : startRetryDelay = c[1] /\ maxRetryDelay = c[2]

Next ==
    \/ \E name \in ServiceNames, singleton \in BOOLEAN : RegisterService(name, singleton)
    \/ DeregisterService
    \/ \E i \in 1..Len(loops) : RunEntry(i)
    \/ \E i \in 1..Len(loops) : RegisterCheck(i)
    \/ \E i \in 1..Len(loops) : DoRegister(i)
    \/ \E i \in 1..Len(loops) : SetUrl(i)
    \/ \E i \in 1..Len(loops) : TtlUpdate(i)
    \/ \E i \in 1..Len(loops) : Wake(i)
    \/ \E key \in DOMAIN store : Expire(key)
    \/ \E f \in ForeignInstances : ForeignRegister(f[1], f[2], f[3])

Spec == Init /\ [][Next]_vars

\* version resolution on every list of at most MaxVersions versions
BoundedSeq(S, n) == UNION { [1..m -> S] : m \in 0..n }

InitVersion ==
    /\ InitCommon
    /\ backend = "consul"
    /\ budget = [calls |-> 0, deregs |-> 0, fails |-> 0, after |-> 0, disc |-> 0]
    /\ startRetryDelay = 1
    /\ maxRetryDelay = 1
    /\ verList \in BoundedSeq(VersionUniverse, MaxVersions)
    /\ verSel \in Selectors
    /\ verOut = NoVersion
    /\ IdleDiscovery

SpecVersion == InitVersion /\ [][Resolve]_vars

\* as Init, and the attempts begun after DeregisterService are counted
InitStop ==
    /\ InitCommon
    /\ IdleVersion
    /\ IdleDiscovery
    /\ budget = [calls |-> 1, deregs |-> MaxDeregisterCalls, fails |-> 0,
                 after |-> MaxAttemptsAfter, disc |-> 0]
    /\ startRetryDelay = 1
    /\ maxRetryDelay = 1

\* RegisterService called up to MaxRegisterCalls times on the same handle
InitRepeat ==
    /\ InitCommon
    /\ IdleVersion
    /\ IdleDiscovery
    /\ budget = [calls |-> MaxRegisterCalls, deregs |-> 0, fails |-> 0, after |-> 0, disc |-> 0]
    /\ startRetryDelay = 1
    /\ maxRetryDelay = 1

\* the handle's goroutines and the backend's clock
NextLoops ==
    \/ \E name \in ServiceNames, singleton \in BOOLEAN : RegisterService(name, singleton)
    \/ \E i \in 1..Len(loops) : RunEntry(i)
    \/ \E i \in 1..Len(loops) : RegisterCheck(i)
    \/ \E i \in 1..Len(loops) : DoRegister(i)
    \/ \E i \in 1..Len(loops) : SetUrl(i)
    \/ \E i \in 1..Len(loops) : TtlUpdate(i)
    \/ \E i \in 1..Len(loops) : Wake(i)
    \/ \E key \in DOMAIN store : Expire(key)

\* a handle on which only the concurrent DiscoverService calls are made
InitConcurrent ==
    /\ InitCommon
    /\ baseURL = ""
    /\ IdleVersion
    /\ IdleDiscovery
    /\ budget = [calls |-> 0, deregs |-> 0, fails |-> 0, after |-> 0, disc |-> 0]
    /\ startRetryDelay = 1
    /\ maxRetryDelay = 1

\* discovery alone: the handle registers nothing
InitDiscover ==
    /\ InitCommon
    /\ baseURL = ""
    /\ IdleVersion
    /\ IdleDiscovery
    /\ budget = [calls |-> 0, deregs |-> 0, fails |-> 0, after |-> 0, disc |-> MaxDiscoverCalls]
    /\ startRetryDelay = 1
    /\ maxRetryDelay = 1

\* what the backend may answer to the query for a service
QueryResults ==
    [b \in Backends |->
        [n \in DiscoverNames |-> IF b = "consul" THEN ConsulResults(n) ELSE EtcdResults(n)]]

NextDiscover ==
    \/ \E o \in DiscoverOptions, queryOk \in BOOLEAN :
          \E result \in QueryResults[backend][o.Value] :
             DiscoverService(o, queryOk, result)
    \/ \E ns \in Namespaces, value \in GatewayValues : GatewayUrlChange(ns, value)

SpecDiscover == InitDiscover /\ [][NextDiscover]_vars

\* one DiscoverService call, made at any time between the changes of the
\* gatewayUrl keys
InitPick ==
    /\ InitCommon
    /\ baseURL = ""
    /\ IdleVersion
    /\ IdleDiscovery
    /\ budget = [calls |-> 0, deregs |-> 0, fails |-> 0, after |-> 0, disc |-> 1]
    /\ startRetryDelay = 1
    /\ maxRetryDelay = 1

SpecPick == InitPick /\ [][NextDiscover]_vars

\* DiscoverService calls that overlap with each other and with the callbacks
NextConcurrent ==
    \/ \E t \in ConcurrentCalls, ns \in Namespaces : CallDiscovers(t, ns)
    \/ \E t \in ConcurrentCalls : CallScan(t)
    \/ \E t \in ConcurrentCalls : CallGetString(t)
    \/ \E t \in ConcurrentCalls : CallLoad(t)
    \/ \E t \in ConcurrentCalls : CallStore(t)
    \/ \E t \in ConcurrentCalls : CallSubscribe(t)
    \/ \E t \in ConcurrentCalls : CallPick(t)
    \/ \E t \in ConcurrentCalls : CallReturn(t)
    \/ \E ns \in Namespaces, value \in GatewayValues : ConfigChange(ns, value)
    \/ CallbackRuns

SpecConcurrent == InitConcurrent /\ [][NextConcurrent]_vars

SpecStop == InitStop /\ [][Next]_vars

\* etcd: discovery queries made at any time between the steps of the
\* registrations of this handle and of other processes
InitInterleave ==
    /\ InitCommon
    /\ backend = "etcd"
    /\ IdleVersion
    /\ IdleDiscovery
    /\ budget = [calls |-> 1, deregs |-> 0, fails |-> 0, after |-> 0, disc |-> 1]
    /\ startRetryDelay = 1
    /\ maxRetryDelay = 1

NextInterleave ==
    \/ NextLoops
    \/ \E f \in ForeignInstances : ForeignRegister(f[1], f[2], f[3])
    \/ \E o \in DiscoverOptions : DiscoverRegistered(o)

SpecInterleave == InitInterleave /\ [][NextInterleave]_vars

SpecRetry == InitRetry /\ [][NextLoops]_vars

SpecRepeat == InitRepeat /\ [][NextLoops]_vars

\* the goroutine of one RegisterService call and a backend whose transient
\* errors end at some time
NextLive ==
    \/ \E name \in ServiceNames, singleton \in BOOLEAN : RegisterService(name, singleton)
    \/ \E i \in 1..Len(loops) : RunEntry(i)
    \/ \E i \in 1..Len(loops) : RegisterCheck(i)
    \/ \E i \in 1..Len(loops) : DoRegister(i)
    \/ \E i \in 1..Len(loops) : SetUrl(i)
    \/ \E i \in 1..Len(loops) : TtlUpdate(i)
    \/ \E i \in 1..Len(loops) : Wake(i)
    \/ \E key \in DOMAIN store : ExpireStale(key)
    \/ BackendRecovers

\* the goroutine keeps running, every sleep ends, and a TTL that is not
\* refreshed runs out
FairLive ==
    /\ WF_vars(RunEntry(1))
    /\ WF_vars(RegisterCheck(1))
    /\ WF_vars(DoRegister(1))
    /\ WF_vars(SetUrl(1))
    /\ WF_vars(TtlUpdate(1))
    /\ WF_vars(Wake(1))
    /\ WF_vars(\E key \in DOMAIN store : ExpireStale(key))

SpecLive == Init /\ [][NextLive]_vars /\ FairLive

\* as SpecLive, with the instances other processes register and let expire,
\* under every retry configuration
NextConflict ==
    \/ NextLive
    \/ \E f \in ForeignInstances : ForeignRegister(f[1], f[2], f[3])

InitConflict ==
    /\ InitCommon
    /\ IdleVersion
    /\ IdleDiscovery
    /\ budget = [calls |-> 1, deregs |-> 0, fails |-> 0, after |-> 0, disc |-> 0]
    /\ \E c \in RetryConfigs : startRetryDelay = c[1] /\ maxRetryDelay = c[2]

SpecConflict == InitConflict /\ [][NextConflict]_vars /\ FairLive

----------------------------------------------------------------------------
(* Properties *)

RECURSIVE Pow2(_)
Pow2(n) == IF n = 0 THEN 1 ELSE 2 * Pow2(n - 1)

\* the wait after the k-th consecutive failure, k = 1, 2, ...
ExpectedDelay(k) ==
    IF k = 1 THEN startRetryDelay
    ELSE Min(startRetryDelay * Pow2(k - 1), maxRetryDelay)

\* C1: the wait after a failed attempt is startDelay after the first failure
\* that follows a success (or the start), doubles with every further
\* consecutive failure and is clamped at maxDelay.
C1_RetryDelaySequence ==
    \A i \in 1..Len(loops) :
        (loops[i].pc = "sleepFail" /\ loops[i].fails < budget.fails)
            => loops[i].retryDelay = ExpectedDelay(loops[i].fails)

\* start=1, max=20: the seventh consecutive failure waits 20
C1_Witness ==
    \E i \in 1..Len(loops) :
        /\ startRetryDelay = 1 /\ maxRetryDelay = 20
        /\ loops[i].pc = "sleepFail" /\ loops[i].fails = 7 /\ loops[i].retryDelay = 20

\* C2: a singleton instance never becomes Registered while an instance of the
\* same name/environment/version that was healthy when RegisterService was
\* called stays healthy.
C2_SingletonNeverRegisters ==
    [][\A k \in 1..Len(objs) :
          (objs[k].peerSince /\ objs'[k].peerSince /\ ~objs[k].isRegistered)
              => ~objs'[k].isRegistered]_vars

\* C3: no two attempts (register or heartbeat) for the same identity are in
\* flight at once.
C3_AttemptsSequential ==
    \A i, j \in 1..Len(loops) :
        (i # j /\ loops[i].pc \in InFlightPCs /\ loops[j].pc \in InFlightPCs)
            => loops[i].inst # loops[j].inst

\* a step of DeregisterService: it returns or it panics
DeregStep == deregDone' # deregDone \/ panicked' # panicked

\* C7: a DeregisterService call made after an earlier one returned does not
\* panic; no DeregisterService call changes the handle's state or the record
\* of any identity but the handle's current one.
C7_DeregisterTwice ==
    [][DeregStep =>
          /\ deregDone >= 1 => ~panicked'
          /\ <<serviceInstance, objs, loops, lastRet>>' = <<serviceInstance, objs, loops, lastRet>>
          /\ DOMAIN store' \subseteq DOMAIN store
          /\ \A k \in DOMAIN store :
                (serviceInstance = 0 \/ k # objs[serviceInstance].key)
                    => (k \in DOMAIN store' /\ store'[k] = store[k])]_vars

\* DeregisterService has returned twice while another identity's record exists
C7_Witness ==
    /\ deregDone = 2
    /\ ~panicked
    /\ \E k \in DOMAIN store : k # objs[serviceInstance].key

\* C8: once DeregisterService has returned, the goroutines spawned before it
\* start at most one more register or heartbeat attempt.
C8_NoAttemptAfterDeregister == attemptsAfter <= 1

\* a step of RegisterService
RegStep == lastRet' # lastRet \/ Len(objs') # Len(objs)

\* C9 as stated: RegisterService with singleton=true returns no identity and
\* an error when a healthy instance of the same service exists.
C9_SingletonRegisterFails ==
    [][(Len(objs') = Len(objs) + 1
          /\ objs'[Len(objs')].singleton
          /\ HealthyPeers(store, objs'[Len(objs')]) # {})
              => (lastRet'.err /\ lastRet'.id = "")]_vars

\* C9 as amended: RegisterService always returns the generated identity and a
\* nil error, and writes nothing to the backend, also when singleton is true
\* and a healthy instance of the same service exists.
C9_RegisterReturnsIdentity ==
    [][RegStep =>
          /\ Len(objs') = Len(objs) + 1
          /\ lastRet' = [op |-> "RegisterService", id |-> objs'[Len(objs')].id,
                         err |-> FALSE]
          /\ lastRet'.id # ""
          /\ ~objs'[Len(objs')].isRegistered
          /\ store' = store]_vars

\* RegisterService returned an identity to a singleton with a healthy peer
C9_Witness ==
    /\ lastRet.op = "RegisterService"
    /\ ~lastRet.err
    /\ Len(objs) >= 1
    /\ objs[Len(objs)].peerSince
    /\ lastRet.id = objs[Len(objs)].id

\* C6: the resolved version is the single highest of the given versions that
\* satisfies the selector, and there is no match exactly when none satisfies
\* it; on {1.0.0, 1.0.4, 1.2.0, 2.0.0} the selectors *, ^1.0.4 and ~1.0.4
\* resolve to 2.0.0, 1.2.0 and 1.0.4.
C6_HighestSatisfying ==
    verOut.done =>
        LET given == {verList[k] : k \in 1..Len(verList)}
            sat   == {w \in given : Satisfies(verSel, w)}
        IN  /\ verOut.found <=> sat # {}
            /\ verOut.found =>
                 /\ verOut.v \in sat
                 /\ \A w \in sat : VersionGE(verOut.v, w)
            /\ given = VersionUniverse =>
                 /\ verSel = Star => verOut.v = <<2, 0, 0>>
                 /\ verSel = [op |-> "^", v |-> <<1, 0, 4>>] => verOut.v = <<1, 2, 0>>
                 /\ verSel = [op |-> "~", v |-> <<1, 0, 4>>] => verOut.v = <<1, 0, 4>>

\* ^1.0.4 has been resolved on 2.0.0, 1.0.0, 1.2.0, 1.0.4 to 1.2.0
C6_Witness ==
    /\ verOut.done
    /\ verList = << <<2, 0, 0>>, <<1, 0, 0>>, <<1, 2, 0>>, <<1, 0, 4>> >>
    /\ verSel = [op |-> "^", v |-> <<1, 0, 4>>]
    /\ verOut.found /\ verOut.v = <<1, 2, 0>>

\* a step of DiscoverService that returned
DiscoverStep == discCalls' # discCalls /\ ~panicked'

\* C4: when the backend query of DiscoverService fails, a handle that has had
\* a successful discovery gets that discovery's URL and no error, any other
\* handle an empty URL and the error; d.lastKnownService and the gateway watch
\* cache are left as they were.
C4_QueryFailureFallback ==
    [][(DiscoverStep /\ discRet'.queryFailed) =>
          /\ lastGood.had => (discRet'.url = lastGood.url /\ ~discRet'.err)
          /\ ~lastGood.had => (discRet'.url = "" /\ discRet'.err)
          /\ lastKnownService' = lastKnownService
          /\ gatewayURLs' = gatewayURLs
          /\ subs' = subs]_vars


\* C5: a successful discovery that selects an instance with direct URL D
\* returns, under GATEWAY, the cached gateway URL of the instance's namespace
\* when that is not empty and D when it is empty or absent, and under DIRECT
\* always D.
C5_AccessTypeResolution ==
    [][(DiscoverStep /\ discRet'.picked) =>
          LET Gs == { gatewayURLs'[k].gatewayURL :
                         k \in { j \in 1..Len(gatewayURLs') :
                                    gatewayURLs'[j].gatewayID = discRet'.ns } }
          IN  /\ ~discRet'.err
              /\ discRet'.access \in {AccessTypeGateway, AccessTypeDirect}
              /\ (discRet'.access = AccessTypeGateway /\ Gs \ {""} # {})
                    => discRet'.url \in Gs \ {""}
              /\ (discRet'.access = AccessTypeGateway /\ Gs \ {""} = {})
                    => discRet'.url = discRet'.D
              /\ discRet'.access = AccessTypeDirect => discRet'.url = discRet'.D]_vars

\* a GATEWAY discovery returned the gateway URL cached for the namespace of
\* the instance it selected
C5_Witness ==
    /\ discRet.picked
    /\ discRet.access = AccessTypeGateway
    /\ discRet.D = "http://10.0.0.5:8080"
    /\ discRet.url = "http://gw1"
    /\ CachedURL(gatewayURLs, discRet.ns) = "http://gw1"

\* a change of a gatewayUrl key
NotifyStep == gwChanges' # gwChanges

\* C10: a change notification for a namespace that has a watch entry
\* overwrites that entry's cached URL and no other entry's, and a later
\* GATEWAY discovery that selects an instance of the namespace returns the
\* newest notified value when it is not empty.
C10_GatewayNotification ==
    [][/\ NotifyStep =>
            /\ Len(gatewayURLs') = Len(gatewayURLs)
            /\ \A k \in 1..Len(gatewayURLs) :
                  LET ns == gatewayURLs[k].gatewayID
                  IN  /\ gatewayURLs'[k].gatewayID = ns
                      /\ gatewayURLs'[k].gatewayURL =
                            IF gatewayCfg'[ns] # gatewayCfg[ns] THEN gatewayCfg'[ns]
                            ELSE gatewayURLs[k].gatewayURL
       /\ (DiscoverStep /\ discRet'.picked /\ discRet'.access = AccessTypeGateway
             /\ discRet'.ns \in notified /\ gatewayCfg[discRet'.ns] # "")
                => discRet'.url = gatewayCfg[discRet'.ns]]_vars

\* a GATEWAY discovery returned the value its namespace was notified of,
\* while the entry of another namespace holds another value
C10_Witness ==
    /\ discRet.picked
    /\ discRet.access = AccessTypeGateway
    /\ discRet.ns \in notified
    /\ discRet.url = "http://gw2"
    /\ gatewayCfg[discRet.ns] = "http://gw2"
    /\ \E k \in 1..Len(gatewayURLs) :
          gatewayURLs[k].gatewayID # discRet.ns /\ gatewayURLs[k].gatewayURL # "http://gw2"

\* C11: d.lastKnownService is one value for the handle, whatever the service:
\* a DiscoverService call for service B whose backend query fails, made after
\* a successful discovery of another service A, returns A's URL and no error.
C11_FallbackAcrossServices ==
    [][(DiscoverStep /\ discRet'.queryFailed /\ lastGood.had
          /\ lastGood.name # discRet'.name)
            => (discRet'.url = lastGood.url /\ ~discRet'.err)]_vars

\* goroutine i ends an attempt / begins one
AttemptEnds(i) == loops[i].pc \in InFlightPCs /\ loops'[i].pc \notin InFlightPCs

AttemptBegins(i) == loops[i].pc = "run" /\ loops'[i].pc \in InFlightPCs

\* C12: a failed register attempt or heartbeat leaves the goroutine waiting
\* the backoff delay, and the attempt after that wait is a register; a
\* heartbeat is begun only when the preceding attempt succeeded.
C12_FailureThenRegister ==
    [][\A i \in 1..Len(loops) :
          /\ (AttemptEnds(i) /\ loops'[i].prev = "fail") => loops'[i].pc = "sleepFail"
          /\ (loops[i].pc = "sleepFail" /\ loops'[i] # loops[i])
                => (loops'[i].pc = "run" /\ loops'[i].prev = "fail")
          /\ AttemptBegins(i) =>
                /\ loops[i].prev = "fail" => loops'[i].pc = "register"
                /\ loops'[i].pc = "ttlUpdate" => loops[i].prev = "ok"]_vars

\* goroutine i ends a register attempt / a heartbeat with success
RegisterSucceeds(i) ==
    loops[i].pc \in {"doRegister", "setUrl"} /\ AttemptEnds(i) /\ loops'[i].prev = "ok"

HeartbeatSucceeds(i) ==
    loops[i].pc = "ttlUpdate" /\ AttemptEnds(i) /\ loops'[i].prev = "ok"

\* C13: in both backends a successful register attempt is followed by the
\* next run() at once, without the ping-interval wait, and a successful
\* heartbeat by the ping-interval wait.
C13_FirstHeartbeatImmediate ==
    [][\A i \in 1..Len(loops) :
          /\ RegisterSucceeds(i) => loops'[i].pc = "run"
          /\ HeartbeatSucceeds(i) => loops'[i].pc = "sleepOk"]_vars

\* the handle's instance is registered
IsRegistered == serviceInstance # 0 /\ objs[serviceInstance].isRegistered

\* the handle's instance has been refreshed: its goroutine waits the ping
\* interval and the record is there
Refreshed ==
    /\ serviceInstance # 0
    /\ objs[serviceInstance].isRegistered
    /\ objs[serviceInstance].key \in DOMAIN store
    /\ \E i \in 1..Len(loops) : loops[i].pc = "sleepOk" /\ loops[i].prev = "ok"

\* the backend reports a healthy instance of the service of the handle's
\* instance, which is a singleton and not registered
SingletonConflict ==
    /\ serviceInstance # 0
    /\ objs[serviceInstance].singleton
    /\ ~objs[serviceInstance].isRegistered
    /\ \E k \in DOMAIN store :
          /\ store[k].name = objs[serviceInstance].name
          /\ store[k].st \in {"passing", "dir"}
          /\ store[k].st = "dir" => (store[k].hasUrl /\ store[k].url # ""
                                       /\ store[k].status # "disabled")

\* C14: if from some time on the backend accepts the register and heartbeat
\* calls and reports no singleton conflict, the instance of a handle on which
\* RegisterService was called becomes registered, stays so, and is refreshed
\* again and again, whatever failures came before.
C14_EventuallyRegistered ==
    <>[](backendUp /\ serviceInstance # 0 /\ ~SingletonConflict)
        => (<>[]IsRegistered /\ []<>Refreshed)

\* etcd: a singleton whose attempts failed before is refreshed once the
\* backend accepts the calls
C14_Witness ==
    /\ backendUp
    /\ backend = "etcd"
    /\ Refreshed
    /\ objs[serviceInstance].singleton
    /\ store[objs[serviceInstance].key].ttl

\* the records of a query's answer whose version is a semantic version, as
\* [id, v]: Consul entries by their version tag, etcd instance directories by
\* the name of their version directory
ParsedRecords(be, answer) ==
    IF be = "consul"
    THEN { [id |-> answer[x[1]].id, v |-> ParseTolerant(TagValue[answer[x[1]].tags[x[2]]]).v] :
             x \in { y \in (1..Len(answer)) \X (1..3) :
                        /\ y[2] <= Len(answer[y[1]].tags)
                        /\ answer[y[1]].tags[y[2]] \in VersionTags
                        /\ ParseTolerant(TagValue[answer[y[1]].tags[y[2]]]).ok } }
    ELSE { [id |-> answer[x[1]].instances[x[2]].id, v |-> ParseTolerant(answer[x[1]].key).v] :
             x \in { y \in (1..Len(answer)) \X (1..3) :
                        /\ y[2] <= Len(answer[y[1]].instances)
                        /\ ParseTolerant(answer[y[1]].key).ok } }

\* the ids of the records whose version is given but is no semantic version
UnparsableRecords(be, answer) ==
    IF be = "consul"
    THEN { answer[k].id : k \in { j \in 1..Len(answer) :
              \E n \in 1..Len(answer[j].tags) :
                 /\ answer[j].tags[n] \in VersionTags
                 /\ ~ParseTolerant(TagValue[answer[j].tags[n]]).ok } }
    ELSE UNION { { answer[k].instances[n].id : n \in 1..Len(answer[k].instances) } :
                   k \in { j \in 1..Len(answer) : ~ParseTolerant(answer[j].key).ok } }

\* no record of the answer has a version that satisfies the selector
NoneSatisfies(be, answer, sel) ==
    \A r \in ParsedRecords(be, answer) : ~Satisfies(sel, r.v)

\* C15: when the query succeeds but no discovered version satisfies the
\* selector (or nothing is discovered), DiscoverService returns the last
\* known service and no error if there is one, else an empty URL and an
\* error; d.lastKnownService is not modified.
C15_SelectionFailureFallback ==
    [][(DiscoverStep /\ ~discRet'.queryFailed
          /\ NoneSatisfies(backend, discRet'.answer, discRet'.sel))
            => /\ lastKnownService # "" => (discRet'.url = lastKnownService /\ ~discRet'.err)
               /\ lastKnownService = "" => (discRet'.url = "" /\ discRet'.err)
               /\ lastKnownService' = lastKnownService]_vars

\* a query answered with instances of which none satisfies the selector
\* returned the last known service
C15_Witness ==
    /\ discCalls = 2
    /\ ~discRet.queryFailed
    /\ ParsedRecords(backend, discRet.answer) # {}
    /\ NoneSatisfies(backend, discRet.answer, discRet.sel)
    /\ ~discRet.err
    /\ discRet.url # ""
    /\ discRet.url = lastKnownService

\* C16: d.lastKnownService is the URL returned by the most recent discovery
\* that selected an instance, or empty if there was none: such a discovery
\* overwrites it with the URL it returns, and a call that fails or answers
\* from the fallback leaves it as it was.
C16_LastKnownGood ==
    /\ [](lastKnownService = IF lastGood.had THEN lastGood.url ELSE "")
    /\ [][DiscoverStep =>
             /\ discRet'.picked => lastKnownService' = discRet'.url
             /\ ~discRet'.picked => lastKnownService' = lastKnownService]_vars

\* a discovery of another service has overwritten the last known service
\* of an earlier discovery
C16_Witness ==
    /\ lastGood.n = 2
    /\ discRet.picked
    /\ discRet.name = "other"
    /\ lastKnownService = discRet.url
    /\ \E k \in 1..Len(gatewayURLs) :
          gatewayURLs[k].gatewayID = WatcherNamespaceOf[EnvName]["svc"][<<1, 0, 0>>]

\* C17: a record whose version is no semantic version is dropped and the
\* call returns: the discovered instances are the other records, each with
\* its parsed version, and one of them is selected when the version of any
\* satisfies the selector.
C17_UnparsableDropped ==
    [][(discCalls' # discCalls /\ UnparsableRecords(backend, discRet'.answer) # {})
          => /\ ~panicked'
             /\ { discRet'.ids[k] : k \in 1..Len(discRet'.ids) }
                   = { r.id : r \in ParsedRecords(backend, discRet'.answer) }
             /\ discRet'.picked <=> ~NoneSatisfies(backend, discRet'.answer, discRet'.sel)
             /\ discRet'.picked =>
                   discRet'.id \in { r.id : r \in ParsedRecords(backend, discRet'.answer) }]_vars

\* the instance listed after a record with version "abc" has been selected
C17_Witness ==
    /\ UnparsableRecords(backend, discRet.answer) # {}
    /\ discRet.picked
    /\ Len(discRet.ids) = 2
    /\ discRet.id = discRet.ids[1]
    /\ discRet.answer[1].id \notin { discRet.ids[k] : k \in 1..Len(discRet.ids) }

\* the records of the answer whose version is the highest that satisfies
\* the selector
BestRecords(be, answer, sel) ==
    LET sat == { r \in ParsedRecords(be, answer) : Satisfies(sel, r.v) }
    IN  { r \in sat : \A q \in sat : VersionGE(r.v, q.v) }

\* the loop of DiscoverService gets through the answer: no record of it
\* makes the call crash
WellFormed(be, answer) ==
    IF be = "consul"
    THEN \A k \in 1..Len(answer) : \A n \in 1..Len(answer[k].tags) : answer[k].tags[n] # "version"
    ELSE \A k \in 1..Len(answer) : answer[k].hasInstances

\* C18: the instance a successful DiscoverService selects is one of the
\* discovered instances of the resolved version (the highest that satisfies
\* the selector), and each of these can be the one selected.
C18_ChoiceAmongResolved ==
    /\ [][(DiscoverStep /\ discRet'.picked) =>
             discRet'.id \in { r.id : r \in BestRecords(backend, discRet'.answer, discRet'.sel) }]_vars
    /\ [](\A o \in DiscoverOptions :
             \A result \in QueryResults[backend][o.Value] :
                (~panicked /\ discCalls < budget.disc /\ WellFormed(backend, result))
                   => \A r \in BestRecords(backend, result, FillDefaultDiscoverOptions(o).Version) :
                         ENABLED (DiscoverService(o, TRUE, result) /\ discRet'.id = r.id))

\* of two discovered instances of the resolved version the second has been
\* selected
C18_Witness ==
    /\ discRet.picked
    /\ Len(discRet.ids) = 2
    /\ Cardinality(BestRecords(backend, discRet.answer, discRet.sel)) = 2
    /\ discRet.id = discRet.ids[2]

\* the namespaces of the records of an answer to a query for service name
EncounteredNamespaces(be, name, answer) ==
    { WatcherNamespaceOf[EnvName][name][r.v] : r \in ParsedRecords(be, answer) }

WatchIDs(urls) == { urls[k].gatewayID : k \in 1..Len(urls) }

\* C19: d.gatewayURLs holds one entry for every namespace a DiscoverService
\* call has met with a parseable version and no other; the entry is made,
\* with one read of gatewayUrl and one subscription, by the call that meets
\* the namespace first, later calls add nothing for it, and no entry is
\* removed.
C19_OneWatchPerNamespace ==
    /\ [](/\ \A j, k \in 1..Len(gatewayURLs) :
                gatewayURLs[j].gatewayID = gatewayURLs[k].gatewayID => j = k
          /\ subs = [k \in 1..Len(gatewayURLs) |-> gatewayURLs[k].gatewayID])
    /\ [][/\ Len(gatewayURLs') >= Len(gatewayURLs)
           /\ (\A m \in 1..Len(gatewayURLs) :
                  gatewayURLs'[m].gatewayID = gatewayURLs[m].gatewayID)
           /\ DiscoverStep =>
                /\ WatchIDs(gatewayURLs') =
                      WatchIDs(gatewayURLs)
                        \cup EncounteredNamespaces(backend, discRet'.name, discRet'.answer)
                /\ \A k \in 1..Len(gatewayURLs) : gatewayURLs'[k] = gatewayURLs[k]
                /\ \A k \in (Len(gatewayURLs) + 1)..Len(gatewayURLs') :
                      gatewayURLs'[k].gatewayURL = gatewayCfg[gatewayURLs'[k].gatewayID]]_vars

\* two calls have each met two instances of one namespace, whose entry has
\* been notified of a change in between: there is one entry and one
\* subscription
C19_Witness ==
    /\ discCalls = 2
    /\ Len(discRet.ids) = 2
    /\ Len(gatewayURLs) = 1
    /\ Len(subs) = 1
    /\ gatewayURLs[1].gatewayID \in notified
    /\ EncounteredNamespaces(backend, discRet.name, discRet.answer) = {gatewayURLs[1].gatewayID}

\* the accesses that no lock or channel orders: d.gatewayURLs is assigned by
\* a call while another call or a callback reads or assigns it
RaceOnList ==
    \E t \in ConcurrentCalls :
        /\ inFlight[t].pc = "store"
        /\ \/ pending # <<>>
           \/ \E u \in ConcurrentCalls \ {t} :
                 inFlight[u].pc \in {"scan", "load", "store", "pick"}

\* the gatewayURL of an entry is assigned by a callback while a call reads it
RaceOnEntry ==
    \E t \in ConcurrentCalls, k \in 1..Len(pending) :
        /\ inFlight[t].pc = "pick"
        /\ pending[k].ns = inFlight[t].ns
        /\ HasWatch(gatewayURLs, inFlight[t].ns)

\* d.lastKnownService is assigned by a call while another call reads or
\* assigns it
RaceOnLastKnownService ==
    \E t \in ConcurrentCalls :
        \E u \in ConcurrentCalls \ {t} :
            inFlight[t].pc = "return" /\ inFlight[u].pc \in {"pick", "return"}

\* no call is in the watch part and no callback is due
Quiescent ==
    /\ pending = <<>>
    /\ \A t \in ConcurrentCalls : inFlight[t].pc \in {"idle", "done"}

\* C20: for every interleaving of concurrent DiscoverService calls and
\* callbacks, no two unordered accesses to d.gatewayURLs, to an entry or to
\* d.lastKnownService conflict, no namespace gets two entries or two
\* subscriptions, and once all calls have returned and all callbacks have
\* run every namespace with a subscription has its entry, holding the value
\* it was last notified of.
C20_ConcurrentAccessSafe ==
    /\ ~RaceOnList
    /\ ~RaceOnEntry
    /\ ~RaceOnLastKnownService
    /\ \A j, k \in 1..Len(gatewayURLs) :
          gatewayURLs[j].gatewayID = gatewayURLs[k].gatewayID => j = k
    /\ \A j, k \in 1..Len(subs) : subs[j] = subs[k] => j = k
    /\ Quiescent =>
          \A k \in 1..Len(subs) :
             /\ HasWatch(gatewayURLs, subs[k])
             /\ subs[k] \in notified => CachedURL(gatewayURLs, subs[k]) = gatewayCfg[subs[k]]

\* the identity of an instance object: what RegisterService generated for it
Identity(o) == [id |-> o.id, name |-> o.name, key |-> o.key, singleton |-> o.singleton]

\* the records of the registry a step has written (created or changed)
Written == {k \in DOMAIN store' : k \notin DOMAIN store \/ store'[k] # store[k]}

\* goroutine i ends an attempt or goes on to the next backend call of it
AttemptActs(i) == loops[i].pc \in InFlightPCs /\ loops'[i] # loops[i]

\* C21: the identity of an instance object never changes, and every attempt
\* of the goroutine started by the i-th RegisterService call works on the
\* object that call allocated: the object it captured is objs[i] and the
\* records it writes are the ones of objs[i].key, whatever is called on the
\* handle later.
C21_IdentityOwnedByLoop ==
    /\ [](\A i \in 1..Len(loops) :
              loops[i].pc \in InFlightPCs => loops[i].inst = i)
    /\ [][/\ \A j \in 1..Len(objs) : Identity(objs'[j]) = Identity(objs[j])
           /\ \A i \in 1..Len(loops) :
                 AttemptActs(i) => Written \subseteq {objs[i].key}]_vars

\* goroutine i waits after a failed attempt while the backend reports a
\* healthy instance of the singleton's service
ConflictWait(i) ==
    /\ i \in 1..Len(loops)
    /\ loops[i].pc = "sleepFail"
    /\ SingletonConflict

\* C22: a register attempt that is refused leaves "register" for the wait
\* after a failure, only when the backend reports a healthy instance of the
\* singleton's service, and it writes nothing, registers nothing and ends
\* neither the goroutine nor the process; the wait is followed by a new run
\* with the doubled, capped delay, which is a register attempt; and if from
\* some time on the backend accepts the calls and reports no conflict, the
\* instance that waited on a conflict becomes registered.
C22_ConflictIsOrdinaryFailure ==
    /\ [][\A i \in 1..Len(loops) :
            /\ (loops[i].pc = "register" /\ loops'[i] # loops[i]) =>
                  /\ loops'[i].pc \in {"sleepFail", "doRegister"}
                  /\ loops'[i].pc = "sleepFail" =>
                        /\ SingletonConflict
                        /\ loops'[i].retryDelay = loops[i].retryDelay
                        /\ loops'[i].prev = "fail"
                        /\ ~IsRegistered'
                        /\ store' = store
                        /\ ~panicked'
            /\ (loops[i].pc = "sleepFail" /\ loops'[i] # loops[i]) =>
                  /\ loops'[i].pc = "run"
                  /\ loops'[i].retryDelay = NextRetryDelay(loops[i].retryDelay, maxRetryDelay)
            /\ (loops[i].pc = "run" /\ loops'[i] # loops[i] /\ loops[i].prev = "fail") =>
                  loops'[i].pc = "register"]_vars
    /\ <>[](backendUp /\ ~SingletonConflict) => (ConflictWait(1) ~> IsRegistered)

\* etcd: a singleton waits with the capped delay, after several failed
\* attempts, while the instance of another process that was healthy when
\* RegisterService was called is still healthy
C22_Witness ==
    /\ backend = "etcd"
    /\ ConflictWait(1)
    /\ objs[serviceInstance].peerSince
    /\ startRetryDelay < maxRetryDelay
    /\ loops[1].retryDelay = maxRetryDelay

\* C23: a DiscoverService call whose backend query succeeded returns,
\* whatever the answer holds: the process does not die in it.
C23_NoCrashOnAnswer ==
    [][discCalls' # discCalls => ~panicked']_vars

\* C24: whatever startRetryDelay and maxRetryDelay are, a goroutine that
\* waits after a failed attempt waits at most maxRetryDelay.
C24_WaitAtMostMax ==
    \A i \in 1..Len(loops) :
        loops[i].pc = "sleepFail" => loops[i].retryDelay <= maxRetryDelay

\* C25: DeregisterService on a handle on which RegisterService was never
\* called returns, and the registry is as it was.
C25_DeregisterUnregisteredHandle ==
    [][(serviceInstance = 0 /\ DeregStep) =>
          (~panicked' /\ deregDone' = deregDone + 1 /\ store' = store)]_vars

\* C26: on etcd, a DiscoverService call with access type DIRECT that returns
\* no error returns a URL that is not empty, whenever the query comes between
\* the steps of a registration.
C26_DirectURLNonEmpty ==
    [][(DiscoverStep /\ backend = "etcd" /\ discRet'.access = AccessTypeDirect
           /\ ~discRet'.err) => discRet'.url # ""]_vars

====
